---- MODULE Spec2Model ----
(***************************************************************************)
(* A model of cash-pay-server-js: the Invoice lifecycle (src/invoice.js,   *)
(* class at lines 560-1103, the revision the shipped bundle is built from) *)
(* and the signature verification of Signatures (part_001) and Webhook     *)
(* (src/webhook.js).                                                       *)
(*                                                                         *)
(* Time is counted in units of 1/UnitsPerSecond second.  An invoice's      *)
(* `expires` is a whole number of seconds, as the server sends it.         *)
(***************************************************************************)
EXTENDS Integers, Sequences, FiniteSets, TLC

\* ------------------------------------------------------------------ bounds
MaxNow == 2          \* the clock stops advancing after this many units
MaxCalls == 2        \* create/createFrom/createFromExisting calls per run

UnitsPerSecond == 1  \* resolution of the clock, in units per 1000 ms

\* ------------------------------------------------------- values and inputs
None == 0                                   \* an undefined field

Events == {"created", "connected", "subscribed", "requested", "broadcasting",
           "broadcasted", "expired", "timer", "failed"}

\* Callbacks: two caller callbacks (one returns, one throws) and the teardown
\* subscriber that create() registers.
UserCallbacks == {"cbOk", "cbThrow"}
Teardown == "destroy"
Throws(cb) == cb = "cbThrow"

\* What a callback is called with.
NoArg == [kind |-> "none"]
SecondsArg(n) == [kind |-> "seconds", n |-> n]
ErrArg(e) == [kind |-> "error", err |-> e]
MsgArg(m) == [kind |-> "message", msg |-> m]

Behaviors == {"normal", "static"}
Expiry == 1                 \* the expiry timestamp the server assigns, seconds
LaterExpiry == 2            \* another expiry timestamp, seconds

\* The names the push channel can deliver.
PushNames == {"subscribed", "requested", "broadcasting", "broadcasted",
              "confirmed", "failed"}

VARIABLES
  inv,        \* the Invoice object's own fields
  instance,   \* this._instance: listen, on, socket, expiryTimer
  sockets,    \* every socket SocketIO() has returned, in order
  timers,     \* every interval setInterval() has returned, in order
  now,        \* the clock
  calls,      \* the create/createFrom/createFromExisting calls made so far
  posts,      \* number of POST /invoice/create requests made
  last,       \* the events the latest step fired, with the callbacks it ran
  fired,      \* the events fired in earlier steps or this one
  emitted     \* the subscribe messages the latest step emitted

ivars == <<inv, instance, sockets, timers, now, calls, posts, last, fired,
           emitted>>

\* ----------------------------------------------------------- the world
\* The part of the state the synchronous code of Invoice reads and writes,
\* threaded through the operators below.  Every step starts with an empty
\* record of fired events.
World == [inv |-> inv, instance |-> instance, sockets |-> sockets,
          timers |-> timers, last |-> <<>>, fired |-> fired]

\* constructor (opts, invoice): config.invoice has no id, config.options has
\* empty callback lists.
NewInvoice(behavior) ==
  [id |-> None, uid |-> None, expires |-> None, behavior |-> behavior,
   service |-> FALSE, txIds |-> None]

NewInstance(listen) == [listen |-> listen, on |-> [e \in Events |-> <<>>],
                        socket |-> None, expiryTimer |-> None]

\* on (events, callback)
On(w, events, cb) ==
  [w EXCEPT !.instance.on =
     [e \in Events |-> IF e \in events THEN Append(@[e], cb) ELSE @[e]]]

\* Math.round((expires - now) / 1000): round half up, as JavaScript does.
Round(units) == (2 * units + UnitsPerSecond) \div (2 * UnitsPerSecond)

SecondsRemaining(w, t) == Round(w.inv.expires * UnitsPerSecond - t)

\* destroy (): socket.disconnect() comes first; on an undefined socket it
\* raises inside the async function, so clearInterval is never reached and
\* the caller only gets a rejected promise.
destroy(w) ==
  IF w.instance.socket = None THEN w
  ELSE LET w1 == [w EXCEPT !.sockets[w.instance.socket].closed = TRUE]
       IN IF w.instance.expiryTimer = None THEN w1
          ELSE [w1 EXCEPT !.timers[w.instance.expiryTimer].active = FALSE]

\* forEach(cb => cb(arg)) from the i-th callback on: in registration order;
\* the teardown subscriber calls destroy(); an exception leaves the loop.
RECURSIVE RunFrom(_, _, _)
RunFrom(w, ev, i) ==
  IF i > Len(w.instance.on[ev]) THEN [w |-> w, threw |-> FALSE, ran |-> i - 1]
  ELSE LET cb == w.instance.on[ev][i]
           w1 == IF cb = Teardown THEN destroy(w) ELSE w
       IN IF Throws(cb) THEN [w |-> w1, threw |-> TRUE, ran |-> i]
          ELSE RunFrom(w1, ev, i + 1)

\* this._instance.on[ev].forEach(cb => cb(arg)), recorded with the list it
\* went through, the callbacks that were invoked and the invoice as they saw
\* it.
Dispatch(w, ev, arg) ==
  LET r == RunFrom(w, ev, 1)
      d == [ev |-> ev, arg |-> arg, view |-> w.inv,
            regs |-> w.instance.on[ev],
            cbs |-> SubSeq(w.instance.on[ev], 1, r.ran)]
  IN [w |-> [r.w EXCEPT !.last = Append(@, d), !.fired = @ \cup {ev}],
      threw |-> r.threw]

\* timerFunc: a nonzero secondsRemaining fires timer, zero fires expired.
TimerFunc(w, t) ==
  LET secondsRemaining == SecondsRemaining(w, t)
  IN IF secondsRemaining # 0
     THEN Dispatch(w, "timer", SecondsArg(secondsRemaining))
     ELSE Dispatch(w, "expired", NoArg)

\* _setupExpirationTimer (): setInterval(timerFunc, 1000), then timerFunc().
SetupExpirationTimer(w, t) ==
  LET w1 == [w EXCEPT !.timers = Append(@, [active |-> TRUE,
                                            due |-> t + UnitsPerSecond]),
                      !.instance.expiryTimer = Len(w.timers) + 1]
  IN TimerFunc(w1, t)

\* _listen (): SocketIO(this.service.webSocketURI) raises when the invoice has
\* no service block; otherwise a new socket replaces this._instance.socket.
Listen(w) ==
  IF ~w.inv.service THEN [w |-> w, threw |-> TRUE]
  ELSE [w |-> [w EXCEPT !.sockets = Append(@, [connected |-> FALSE,
                                               closed |-> FALSE,
                                               dropped |-> FALSE]),
                        !.instance.socket = Len(w.sockets) + 1],
        threw |-> FALSE]

\* create () that sets the countdown and the socket up whatever listen says.
CreateListenAlways(w, t) ==
  LET r1 == SetupExpirationTimer(w, t)
  IN IF r1.threw THEN [w |-> r1.w, err |-> "callback"]
     ELSE LET w2 == On(r1.w, {"expired", "broadcasted"}, Teardown)
              r3 == Listen(w2)
          IN IF r3.threw THEN [w |-> r3.w, err |-> "type"]
             ELSE [w |-> r3.w, err |-> "none"]

\* create (), from the listen test to return: the result names the error
\* that reaches the catch clause, if any.
CreateListen(w, t) ==
  IF ~w.instance.listen THEN [w |-> w, err |-> "none"]
  ELSE LET r1 == SetupExpirationTimer(w, t)
       IN IF r1.threw THEN [w |-> r1.w, err |-> "callback"]
          ELSE LET w2 == On(r1.w, {"expired", "broadcasted"}, Teardown)
                   r3 == Listen(w2)
               IN IF r3.threw THEN [w |-> r3.w, err |-> "type"]
                  ELSE [w |-> r3.w, err |-> "none"]

\* The catch clause shared by create, createFrom and createFromExisting:
\* the failed callbacks run with the error, then the error is thrown again
\* (a failed callback that throws replaces it).
Catch(w, err) ==
  LET r == Dispatch(w, "failed", ErrArg(err))
  IN [w |-> r.w, err |-> IF r.threw THEN "callback" ELSE err]

CreateTail(w, t) ==
  LET r1 == CreateListen(w, t)
  IN IF r1.err # "none" THEN Catch(r1.w, r1.err)
     ELSE LET r2 == Dispatch(r1.w, "created", NoArg)
          IN IF r2.threw THEN Catch(r2.w, "callback")
             ELSE [w |-> r2.w, err |-> "none"]

\* An Object.assign that never writes id.
AssignExceptId(w, data) ==
  [w EXCEPT !.inv = [f \in DOMAIN w.inv |->
                       IF f \in DOMAIN data \ {"id"} THEN data[f]
                       ELSE w.inv[f]]]

\* Object.assign(this, data): every field of data overwrites the invoice's.
Assign(w, data) ==
  [w EXCEPT !.inv = [f \in DOMAIN w.inv |->
                       IF f \in DOMAIN data THEN data[f] ELSE w.inv[f]]]

\* --------------------------------------------------------------- inputs
AdoptedId == 7       \* the id of an invoice created elsewhere and adopted
ForeignId == 9       \* an id no invoice of this client was given

\* The response of POST /invoice/create to the req-th request: the server
\* assigns the id and the expiry and echoes the requested behavior; the
\* document key _id may or may not be serialised.
Responses(w, req) ==
  {[id |-> req, uid |-> u, expires |-> Expiry, behavior |-> w.inv.behavior,
    service |-> TRUE] : u \in {None, req}}

\* An invoice handed over by the caller's own server (createFrom,
\* createFromExisting): fully or partially formed.
Payloads(w) ==
  {[id |-> AdoptedId, uid |-> u, expires |-> Expiry,
    behavior |-> w.inv.behavior, service |-> s]
     : u \in {None, AdoptedId}, s \in BOOLEAN}

\* The invoice snapshot of a push message.
Snapshots ==
  {[id |-> ForeignId, expires |-> x, txIds |-> 1] : x \in {Expiry, LaterExpiry}}

\* ----------------------------------------------------------- the actions
SetWorld(w) ==
  /\ inv' = w.inv
  /\ instance' = w.instance
  /\ sockets' = w.sockets
  /\ timers' = w.timers
  /\ last' = w.last
  /\ fired' = w.fired

\* createFrom and createFromExisting wrap create() in a try/catch of their
\* own, which runs the failed callbacks again before throwing again.
Outer(entry, r) ==
  IF entry # "create" /\ r.err # "none" THEN Catch(r.w, r.err) ELSE r

Stage(r) == IF r.err = "none" THEN "resolved" ELSE "rejected"

Settled(c) == c.stage \in {"resolved", "rejected"}

\* A new call record; `alone` tells that every earlier call had settled,
\* `cause` names the HTTP request whose failure ended the call, if one did,
\* `destroyed` that destroy () was called while the call was waiting.
NewCall(entry, stage, req, err) ==
  [entry |-> entry, stage |-> stage, req |-> req, err |-> err,
   cause |-> "none", alone |-> \A i \in 1..Len(calls) : Settled(calls[i]),
   destroyed |-> FALSE]

\* create () up to its first suspension: without _id it posts and waits for
\* the response, with _id it runs to the end at once.
EnterCreate(w, entry) ==
  IF w.inv.uid = None
  THEN /\ posts' = posts + 1
       /\ calls' = Append(calls, NewCall(entry, "post", posts + 1, "none"))
       /\ SetWorld(w)
  ELSE LET r == Outer(entry, CreateTail(w, now))
       IN /\ posts' = posts
          /\ calls' = Append(calls, NewCall(entry, Stage(r), None, r.err))
          /\ SetWorld(r.w)

create(max) ==
  /\ Len(calls) < max
  /\ EnterCreate(World, "create")
  /\ emitted' = <<>>
  /\ UNCHANGED now

createFromExisting(max) ==
  /\ Len(calls) < max
  /\ \E invoice \in Payloads(World) :
       EnterCreate(Assign(World, invoice), "createFromExisting")
  /\ emitted' = <<>>
  /\ UNCHANGED now

\* createFrom (endpoint): the caller's endpoint is asked first.
createFrom(max) ==
  /\ Len(calls) < max
  /\ calls' = Append(calls, NewCall("createFrom", "fetch", None, "none"))
  /\ SetWorld(World)
  /\ emitted' = <<>>
  /\ UNCHANGED <<now, posts>>

\* The caller's endpoint answers: Object.assign(this, res.data), then
\* create().
CreateFromResponse(c) ==
  /\ calls[c].stage = "fetch"
  /\ \E data \in Payloads(World) :
       LET w == Assign(World, data)
       IN IF w.inv.uid = None
          THEN /\ posts' = posts + 1
               /\ calls' = [calls EXCEPT ![c].stage = "post",
                                         ![c].req = posts + 1]
               /\ SetWorld(w)
          ELSE LET r == Outer("createFrom", CreateTail(w, now))
               IN /\ posts' = posts
                  /\ calls' = [calls EXCEPT ![c].stage = Stage(r),
                                            ![c].err = r.err]
                  /\ SetWorld(r.w)
  /\ emitted' = <<>>
  /\ UNCHANGED now

\* The caller's endpoint fails: createFrom's catch clause.
CreateFromFailure(c) ==
  /\ calls[c].stage = "fetch"
  /\ LET r == Catch(World, "http")
     IN /\ calls' = [calls EXCEPT ![c].stage = "rejected", ![c].err = r.err,
                                  ![c].cause = "fetch"]
        /\ SetWorld(r.w)
  /\ emitted' = <<>>
  /\ UNCHANGED <<now, posts>>

\* POST /invoice/create answers: Object.assign(this, invoiceRes.data) and
\* the rest of create().
PostResponse(c) ==
  /\ calls[c].stage = "post"
  /\ \E res \in Responses(World, calls[c].req) :
       LET r == Outer(calls[c].entry, CreateTail(Assign(World, res), now))
       IN /\ calls' = [calls EXCEPT ![c].stage = Stage(r), ![c].err = r.err]
          /\ SetWorld(r.w)
  /\ emitted' = <<>>
  /\ UNCHANGED <<now, posts>>

\* POST /invoice/create fails: create's catch clause, then the wrapper's.
PostFailure(c) ==
  /\ calls[c].stage = "post"
  /\ LET r == Outer(calls[c].entry, Catch(World, "http"))
     IN /\ calls' = [calls EXCEPT ![c].stage = "rejected", ![c].err = r.err,
                                  ![c].cause = "post"]
        /\ SetWorld(r.w)
  /\ emitted' = <<>>
  /\ UNCHANGED <<now, posts>>

\* The caller registers a callback: on (event, callback).
Registered == {p \in Events \X UserCallbacks :
                 \E i \in 1..Len(instance.on[p[1]]) :
                    instance.on[p[1]][i] = p[2]}

\* The callbacks are registered before the invoice is created, as in the
\* examples of the documentation, each callback at most once, and all for
\* one event.
OnCall ==
  /\ calls = <<>>
  /\ \E ev \in Events, cb \in UserCallbacks :
       /\ \A p \in Registered : p[1] = ev /\ p[2] # cb
       /\ SetWorld(On(World, {ev}, cb))
  /\ emitted' = <<>>
  /\ UNCHANGED <<now, calls, posts>>

\* The caller calls destroy ().
DestroyCall ==
  /\ SetWorld(destroy(World))
  /\ emitted' = <<>>
  /\ UNCHANGED <<now, calls, posts>>

\* The caller (or the observer intoContainer installs, when the container
\* is removed) calls destroy () while a creation call is still waiting for
\* its response.
DestroyWaiting ==
  /\ \E c \in 1..Len(calls) : ~Settled(calls[c])
  /\ SetWorld(destroy(World))
  /\ calls' = [c \in 1..Len(calls) |->
                IF Settled(calls[c]) THEN calls[c]
                ELSE [calls[c] EXCEPT !.destroyed = TRUE]]
  /\ emitted' = <<>>
  /\ UNCHANGED <<now, posts>>

\* Time passes.  Only timerFunc reads the clock, so time is followed from
\* the first setInterval on.
Advance ==
  /\ now < MaxNow
  /\ timers # <<>>
  /\ now' = now + 1
  /\ SetWorld(World)
  /\ emitted' = <<>>
  /\ UNCHANGED <<calls, posts>>

\* An interval that has not been cleared fires, 1000 ms or more after its
\* previous run; an exception of a callback is lost in the event loop.
Tick(i) ==
  /\ timers[i].active
  /\ now >= timers[i].due
  /\ LET r == TimerFunc(World, now)
     IN SetWorld([r.w EXCEPT !.timers[i].due = now + UnitsPerSecond])
  /\ emitted' = <<>>
  /\ UNCHANGED <<now, calls, posts>>

\* socket.on('connect'), for the first time or again after a drop:
\* this._instance.socket.emit('subscribe', {invoiceId: this.id}), on the
\* socket the instance holds then.
SocketConnect(s) ==
  /\ ~sockets[s].closed
  /\ ~sockets[s].connected
  /\ SetWorld([World EXCEPT !.sockets[s].connected = TRUE])
  /\ emitted' = <<[socket |-> instance.socket, invoiceId |-> inv.id,
                   again |-> sockets[s].dropped]>>
  /\ UNCHANGED <<now, calls, posts>>

\* The transport drops; socket.io will connect again on its own.
SocketDrop(s) ==
  /\ ~sockets[s].closed
  /\ sockets[s].connected
  /\ SetWorld([World EXCEPT !.sockets[s].connected = FALSE,
                            !.sockets[s].dropped = TRUE])
  /\ emitted' = <<>>
  /\ UNCHANGED <<now, calls, posts>>

\* _.omit(msg.invoice, 'id')
OmitId(invoice) == [f \in DOMAIN invoice \ {"id"} |-> invoice[f]]

\* Handlers whose failed handler also merges the snapshot and tears the
\* invoice down.
SocketHandlerFailedEnds(w, name, msg) ==
  CASE name = "subscribed" -> Dispatch(w, "subscribed", MsgArg(msg)).w
    [] name = "requested" ->
         Dispatch(Assign(w, OmitId(msg.invoice)), "requested", MsgArg(msg)).w
    [] name = "broadcasted" ->
         Dispatch(Assign(w, OmitId(msg.invoice)), "broadcasted",
                  MsgArg(msg)).w
    [] name = "failed" ->
         destroy(Dispatch(Assign(w, OmitId(msg.invoice)), "failed",
                          MsgArg(msg)).w)
    [] OTHER -> w

\* The handlers _listen () installs on the socket.  subscribed and failed
\* only run the callbacks; requested and broadcasted merge the snapshot
\* first; no handler is installed for any other name.
SocketHandler(w, name, msg) ==
  CASE name = "subscribed" -> Dispatch(w, "subscribed", MsgArg(msg)).w
    [] name = "requested" ->
         Dispatch(Assign(w, OmitId(msg.invoice)), "requested", MsgArg(msg)).w
    [] name = "broadcasted" ->
         Dispatch(Assign(w, OmitId(msg.invoice)), "broadcasted",
                  MsgArg(msg)).w
    [] name = "failed" -> Dispatch(w, "failed", MsgArg(msg)).w
    [] OTHER -> w

\* The message `name` with the snapshot `snap`, as the server sends it.
Message(name, snap) == [event |-> name, invoice |-> snap]

\* The message arrives on the connected socket s.
Receive(s, name, snap) ==
  /\ sockets[s].connected
  /\ ~sockets[s].closed
  /\ SetWorld(SocketHandler(World, name, Message(name, snap)))
  /\ emitted' = <<>>
  /\ UNCHANGED <<now, calls, posts>>

\* A push message arrives on a connected socket.
PushMsg(s) == \E name \in PushNames, snap \in Snapshots : Receive(s, name, snap)

\* ======================================================================
\* Signature verification: Signatures (part_001) and Webhook (webhook.js)
\* ======================================================================
MaxClock == 2        \* the verification clock stops after this many units
MaxInflight == 1     \* verifications under way at one time
MaxLoads == 1        \* addTrusted calls of the application waiting at a time

\* Values as JavaScript sees them: a base64 string (canonical or another
\* spelling of the same bytes), a Buffer, or undefined.
Undefined == [t |-> "undefined", raw |-> 0, alt |-> FALSE]
Base64(raw) == [t |-> "string", raw |-> raw, alt |-> FALSE]
Base64Alt(raw) == [t |-> "string", raw |-> raw, alt |-> TRUE]
Buffer(raw) == [t |-> "buffer", raw |-> raw, alt |-> FALSE]

\* Buffer.from(value, 'base64'): the spelling is lost.
FromBase64(v) == Buffer(v.raw)

\* if (typeof v === 'string') v = Buffer.from(v, 'base64')
Decode(v) == IF v.t = "string" THEN FromBase64(v) ELSE v

\* The payload: an object (named by its JSON text) or that text itself.
\* JSON.stringify, then Buffer.from: both end as the same bytes.
Object(text) == [t |-> "object", raw |-> text]
String(text) == [t |-> "string", raw |-> text]
ToBuffer(payload) == Buffer(payload.raw)

Texts == {1, 2}
Sha256(bytes) == 10 + bytes
Garbage == 0
Sign(key, digest) == 100 * key + digest
\* libCash.ECPair.verify(ecPair, digest, signature)
ECVerify(publicKey, digest, signature) == signature = Sign(publicKey, digest)

Identities == {"A", "B"}             \* the owners of registered key sets
Owners == Identities \cup {"undefined"}   \* the property names of _keys
Endpoints == {"E1", "E2"}
ConfigEndpoint == "E1"               \* config.options.endpoint
ExpirationDates == {0, 1}
NaN == -1                            \* new Date(undefined).getTime()

\* A body that parses but is not a key set (an error page, {}): owner,
\* expirationDate and publicKeys all read as undefined.
Malformed == [owner |-> "undefined", expirationDate |-> NaN,
              publicKeys |-> <<>>, array |-> FALSE]

\* GET {endpoint}/signingKeys/paymentProtocol.json: what a server may answer.
\* E1 is A's server and rotates its keys; E2 is B's server, and may name A as
\* the owner.
KeyResponses(endpoint) ==
  {Malformed} \cup
  IF endpoint = "E1"
  THEN {[owner |-> "A", expirationDate |-> x, publicKeys |-> ks,
         array |-> TRUE] : x \in ExpirationDates, ks \in {<<1, 2>>, <<2>>}}
  ELSE {[owner |-> o, expirationDate |-> x, publicKeys |-> <<3>>,
         array |-> TRUE] : o \in Identities, x \in ExpirationDates}

\* The envelopes and payloads a caller may hand over.
PayloadInputs == {Object(1), String(1), Object(2)}
DigestInputs == {Base64(Sha256(1)), Base64Alt(Sha256(1)), Base64(Sha256(2))}
SignatureInputs ==
  {Base64(Sign(1, Sha256(1))), Base64Alt(Sign(1, Sha256(1))),
   Base64(Sign(2, Sha256(1))), Base64(Sign(3, Sha256(1))),
   Base64(Sign(1, Sha256(2))), Base64(Garbage)}
TypeInputs == {"ECC", "RSA"}
IdentityInputs == {"A", "B", "X"}
Envelopes == [digest : DigestInputs, identity : IdentityInputs,
              signature : SignatureInputs, signatureType : TypeInputs]

VARIABLES
  sigKeys,    \* Signatures._keys: null or one key set
  whKeys,     \* Webhook._keys: a key set per owner
  clock,      \* new Date()
  vcalls,     \* the verifications waiting for their key fetch
  loads,      \* the addTrusted calls of the application waiting for theirs
  verdict,    \* how the latest verification ended
  event,      \* the event object the application holds
  verifier    \* the verifier the application uses

vvars == <<sigKeys, whKeys, clock, vcalls, loads, verdict, event, verifier>>

\* A key set as the verifiers store it: `set` tells that the entry exists,
\* `array` that its publicKeys is an array.
NoKeys == [endpoint |-> "", expirationDate |-> 0, publicKeys |-> <<>>,
           array |-> FALSE, set |-> FALSE]
KeySet(endpoint, res) ==
  [endpoint |-> endpoint, expirationDate |-> res.expirationDate,
   publicKeys |-> res.publicKeys, array |-> res.array, set |-> TRUE]

\* new Date() > new Date(keys.expirationDate): false for an invalid date.
Expired(keys, t) == keys.expirationDate # NaN /\ t > keys.expirationDate

\* A reduce that keeps only the first key's answer.
FirstKeyVerifies(publicKeys, digest, signature) ==
  publicKeys # <<>> /\ ECVerify(publicKeys[1], digest, signature)

\* publicKeys.reduce((isValid, publicKey) => isValid += verify(...), false):
\* every key is tried, and any success makes the sum truthy.
AnyKeyVerifies(publicKeys, digest, signature) ==
  \E i \in 1..Len(publicKeys) : ECVerify(publicKeys[i], digest, signature)

\* The end of a verification without the digest comparison: the signature
\* is checked against the digest of the envelope.
CheckSignatureOnly(payload, env, keys) ==
  LET digest == Decode(env.digest)
      signature == Decode(env.signature)
  IN IF ~keys.set \/ ~keys.array \/ digest.t # "buffer"
        \/ signature.t # "buffer"
     THEN [outcome |-> "TypeError", ecc |-> 0]
     ELSE IF AnyKeyVerifies(keys.publicKeys, digest.raw, signature.raw)
     THEN [outcome |-> "ok", ecc |-> Len(keys.publicKeys)]
     ELSE [outcome |-> "SignatureInvalid", ecc |-> Len(keys.publicKeys)]

\* The end of a verification, from the digest comparison on, against the
\* key set `keys`: the outcome and the number of ECC checks made.
\* Buffer.compare and ECPair.verify raise on a value that is no Buffer, and
\* publicKeys.reduce on a publicKeys that is no array.
CheckDigestAndSignature(payload, env, keys) ==
  LET digest == Decode(env.digest)
      signature == Decode(env.signature)
      payloadDigest == Sha256(ToBuffer(payload).raw)
  IN IF digest.t # "buffer" THEN [outcome |-> "TypeError", ecc |-> 0]
     ELSE IF payloadDigest # digest.raw
     THEN [outcome |-> "DigestMismatch", ecc |-> 0]
     ELSE IF ~keys.set \/ ~keys.array
     THEN [outcome |-> "TypeError", ecc |-> 0]
     ELSE IF keys.publicKeys # <<>> /\ signature.t # "buffer"
     THEN [outcome |-> "TypeError", ecc |-> 1]
     ELSE IF AnyKeyVerifies(keys.publicKeys, payloadDigest, signature.raw)
     THEN [outcome |-> "ok", ecc |-> Len(keys.publicKeys)]
     ELSE [outcome |-> "SignatureInvalid", ecc |-> Len(keys.publicKeys)]


\* What a caller passes as `headers`: the HTTP headers of a delivery, or an
\* object with the envelope's own field names.
HttpHeaders(env) ==
  [n \in {"digest", "x-identity", "x-signature", "x-signature-type"} |->
     CASE n = "digest" -> env.digest
       [] n = "x-identity" -> env.identity
       [] n = "x-signature" -> env.signature
       [] OTHER -> env.signatureType]
PlainHeaders(env) ==
  [n \in {"digest", "identity", "signature", "signatureType"} |->
     CASE n = "digest" -> env.digest
       [] n = "identity" -> env.identity
       [] n = "signature" -> env.signature
       [] OTHER -> env.signatureType]
HeaderInputs(env) == {HttpHeaders(env), PlainHeaders(env)}

\* headers[name]: undefined for a name the object does not have.
Get(headers, name, undefined) ==
  IF name \in DOMAIN headers THEN headers[name] ELSE undefined

\* An event object as the push channel delivers it: the payload with its
\* envelope under `signature`, until verifyEvent deletes that property.
NoEnvelope == [digest |-> Undefined, identity |-> "undefined",
               signature |-> Undefined, signatureType |-> "undefined"]
NoEvent == [held |-> FALSE, payload |-> Object(1), signed |-> FALSE,
            signature |-> NoEnvelope]

NoVerdict == [outcome |-> "none", api |-> "", shape |-> "",
              payload |-> Object(1), env |-> NoEnvelope, keys |-> NoKeys,
              refresh |-> "none", ecc |-> 0, at |-> 0]

Verdict(api, shape, payload, env, keys, refresh, end) ==
  [outcome |-> end.outcome, api |-> api, shape |-> shape,
   payload |-> payload, env |-> env, keys |-> keys, refresh |-> refresh,
   ecc |-> end.ecc, at |-> clock]

Thrown(error) == [outcome |-> error, ecc |-> 0]

Without(seq, i) == SubSeq(seq, 1, i - 1) \o SubSeq(seq, i + 1, Len(seq))

\* _verify with the key refresh ahead of the signature-type test.
VerifyRefreshFirst(shape, payload, env) ==
  IF ~sigKeys.set \/ Expired(sigKeys, clock)
  THEN /\ Len(vcalls) < MaxInflight
       /\ vcalls' = Append(vcalls, [api |-> "Signatures", shape |-> shape,
                                    payload |-> payload, env |-> env,
                                    trusted |-> sigKeys])
       /\ verdict' = NoVerdict
       /\ UNCHANGED <<sigKeys, whKeys, clock, loads>>
  ELSE /\ verdict' = Verdict("Signatures", shape, payload, env, sigKeys,
                             "none",
                             IF env.signatureType # "ECC"
                             THEN Thrown("UnsupportedType")
                             ELSE CheckDigestAndSignature(payload, env,
                                                          sigKeys))
       /\ UNCHANGED <<sigKeys, whKeys, clock, vcalls, loads>>

\* _verify that fetches the keys once and never looks at their expiry.
VerifyWithoutExpiry(shape, payload, env) ==
  IF env.signatureType # "ECC"
  THEN /\ verdict' = Verdict("Signatures", shape, payload, env, sigKeys, "none",
                             Thrown("UnsupportedType"))
       /\ UNCHANGED <<sigKeys, whKeys, clock, vcalls, loads>>
  ELSE IF ~sigKeys.set
  THEN /\ Len(vcalls) < MaxInflight
       /\ vcalls' = Append(vcalls, [api |-> "Signatures", shape |-> shape,
                                    payload |-> payload, env |-> env,
                                    trusted |-> sigKeys])
       /\ verdict' = NoVerdict
       /\ UNCHANGED <<sigKeys, whKeys, clock, loads>>
  ELSE /\ verdict' = Verdict("Signatures", shape, payload, env, sigKeys, "none",
                             CheckDigestAndSignature(payload, env, sigKeys))
       /\ UNCHANGED <<sigKeys, whKeys, clock, vcalls, loads>>

\* Signatures._verify up to its first suspension.
Verify(shape, payload, env) ==
  IF env.signatureType # "ECC"
  THEN /\ verdict' = Verdict("Signatures", shape, payload, env, sigKeys, "none",
                             Thrown("UnsupportedType"))
       /\ UNCHANGED <<sigKeys, whKeys, clock, vcalls, loads>>
  ELSE IF ~sigKeys.set \/ Expired(sigKeys, clock)
  THEN /\ Len(vcalls) < MaxInflight
       /\ vcalls' = Append(vcalls, [api |-> "Signatures", shape |-> shape,
                                    payload |-> payload, env |-> env,
                                    trusted |-> sigKeys])
       /\ verdict' = NoVerdict
       /\ UNCHANGED <<sigKeys, whKeys, clock, loads>>
  ELSE /\ verdict' = Verdict("Signatures", shape, payload, env, sigKeys, "none",
                             CheckDigestAndSignature(payload, env, sigKeys))
       /\ UNCHANGED <<sigKeys, whKeys, clock, vcalls, loads>>

\* The application is free to start a Signatures verification of a webhook.
CanVerifyWebhook ==
  /\ Len(vcalls) < MaxInflight
  /\ verifier = "Signatures"
  /\ verdict = NoVerdict
  /\ ~event.held

\* Signatures.verifyWebhook(payload, headers)
VerifyWebhookWith(payload, headers) ==
  /\ CanVerifyWebhook
  /\ Verify("verifyWebhook", payload,
            [digest |-> Get(headers, "digest", Undefined),
             identity |-> Get(headers, "identity", "undefined"),
             signature |-> Get(headers, "signature", Undefined),
             signatureType |-> Get(headers, "signatureType", "undefined")])
  /\ UNCHANGED <<event, verifier>>

\* The application calls it with the headers of a delivery.
verifyWebhook ==
  /\ CanVerifyWebhook
  /\ \E payload \in PayloadInputs, sent \in Envelopes :
       \E headers \in HeaderInputs(sent) : VerifyWebhookWith(payload, headers)

\* The application receives an event object from the push channel.
ReceiveEvent ==
  /\ verdict = NoVerdict
  /\ verifier = "Signatures"
  /\ ~event.held
  /\ vcalls = <<>>
  /\ \E text \in Texts, sent \in Envelopes :
       event' = [held |-> TRUE, payload |-> Object(text), signed |-> TRUE,
                 signature |-> sent]
  /\ verdict' = NoVerdict
  /\ UNCHANGED <<sigKeys, whKeys, clock, vcalls, loads, verifier>>

\* The application lets go of the event object.
DropEvent ==
  /\ verdict = NoVerdict
  /\ event.held
  /\ vcalls = <<>>
  /\ event' = NoEvent
  /\ verdict' = NoVerdict
  /\ UNCHANGED <<sigKeys, whKeys, clock, vcalls, loads, verifier>>

\* Signatures.verifyEvent(payload): reading a property of the missing
\* payload.signature raises before anything else happens.
verifyEvent ==
  /\ Len(vcalls) < MaxInflight
  /\ event.held
  /\ verdict = NoVerdict
  /\ UNCHANGED verifier
  /\ IF event.signed
     THEN /\ Verify("verifyEvent", event.payload, event.signature)
          /\ event' = [event EXCEPT !.signed = FALSE]
     ELSE /\ verdict' = Verdict("Signatures", "verifyEvent", event.payload,
                                NoEnvelope, sigKeys, "none",
                                Thrown("TypeError"))
          /\ UNCHANGED <<sigKeys, whKeys, clock, vcalls, loads, event,
                         verifier>>

\* Signatures.refreshKeys, awaited by _verify: the answer `res` arrives and
\* is stored, and the checks go on.
RefreshKeysAnswer(i, res) ==
  /\ vcalls[i].api = "Signatures"
  /\ LET keys == KeySet(ConfigEndpoint, res)
         c == vcalls[i]
     IN /\ sigKeys' = keys
        /\ verdict' = Verdict("Signatures", c.shape, c.payload, c.env, keys,
                              "ok",
                              CheckDigestAndSignature(c.payload, c.env, keys))
  /\ vcalls' = Without(vcalls, i)
  /\ UNCHANGED <<whKeys, clock, loads, event, verifier>>

RefreshKeysResponse(i) ==
  \E res \in KeyResponses(ConfigEndpoint) : RefreshKeysAnswer(i, res)

\* ... or the GET fails, and _verify rejects with that error.
RefreshKeysFailure(i) ==
  /\ vcalls[i].api = "Signatures"
  /\ LET c == vcalls[i]
     IN verdict' = Verdict("Signatures", c.shape, c.payload, c.env, sigKeys,
                           "failed", Thrown("KeyFetchError"))
  /\ vcalls' = Without(vcalls, i)
  /\ UNCHANGED <<sigKeys, whKeys, clock, loads, event, verifier>>

\* this._keys[identity]: undefined for an owner never stored.
Trusted(keys, identity) ==
  IF identity \in DOMAIN keys THEN keys[identity] ELSE NoKeys

\* Webhook.verifySignature(payload, headers)
verifySignature ==
  /\ Len(vcalls) < MaxInflight
  /\ verifier = "Webhook"
  /\ verdict = NoVerdict
  /\ \E payload \in PayloadInputs, sent \in Envelopes :
       \E headers \in HeaderInputs(sent) :
         LET env == [digest |-> Get(headers, "digest", Undefined),
                     identity |-> Get(headers, "x-identity", "undefined"),
                     signature |-> Get(headers, "x-signature", Undefined),
                     signatureType |->
                       Get(headers, "x-signature-type", "undefined")]
             trusted == Trusted(whKeys, env.identity)
         IN IF env.signatureType # "ECC"
            THEN /\ verdict' = Verdict("Webhook", "verifySignature", payload,
                                       env, trusted, "none",
                                       Thrown("UnsupportedType"))
                 /\ UNCHANGED vcalls
            ELSE IF ~trusted.set
            THEN /\ verdict' = Verdict("Webhook", "verifySignature", payload,
                                       env, trusted, "none",
                                       Thrown("TypeError"))
                 /\ UNCHANGED vcalls
            ELSE IF Expired(trusted, clock)
            THEN /\ Len(vcalls) < MaxInflight
                 /\ vcalls' = Append(vcalls,
                                     [api |-> "Webhook",
                                      shape |-> "verifySignature",
                                      payload |-> payload, env |-> env,
                                      trusted |-> trusted])
                 /\ verdict' = NoVerdict
            ELSE /\ verdict' = Verdict("Webhook", "verifySignature", payload,
                                       env, trusted, "none",
                                       CheckDigestAndSignature(payload, env,
                                                               trusted))
                 /\ UNCHANGED vcalls
  /\ UNCHANGED <<sigKeys, whKeys, clock, loads, event, verifier>>

\* A store that merges the answer into an entry that exists: the endpoint
\* and the expiry are replaced, the public keys of the old entry are kept.
StoreMerged(keys, endpoint, res) ==
  LET old == keys[res.owner]
  IN [keys EXCEPT ![res.owner] =
        IF old.set
        THEN [KeySet(endpoint, res) EXCEPT !.publicKeys = old.publicKeys,
                                           !.array = old.array]
        ELSE KeySet(endpoint, res)]

\* this._keys[res.data.owner] = {endpoint, expirationDate, publicKeys}
Store(keys, endpoint, res) ==
  [keys EXCEPT ![res.owner] = KeySet(endpoint, res)]

\* Webhook.addTrusted, awaited by verifySignature: the answer `res` arrives
\* and is stored under its owner, and the checks go on with
\* this._keys[identity] as it is then.
AddTrustedAnswer(i, res) ==
  /\ vcalls[i].api = "Webhook"
  /\ LET c == vcalls[i]
         stored == Store(whKeys, c.trusted.endpoint, res)
         keys == Trusted(stored, c.env.identity)
     IN /\ whKeys' = stored
        /\ verdict' = Verdict("Webhook", c.shape, c.payload, c.env, keys,
                              "ok",
                              CheckDigestAndSignature(c.payload, c.env, keys))
  /\ vcalls' = Without(vcalls, i)
  /\ UNCHANGED <<sigKeys, clock, loads, event, verifier>>

AddTrustedResponse(i) ==
  \E res \in KeyResponses(vcalls[i].trusted.endpoint) : AddTrustedAnswer(i, res)

AddTrustedFailure(i) ==
  /\ vcalls[i].api = "Webhook"
  /\ LET c == vcalls[i]
     IN verdict' = Verdict("Webhook", c.shape, c.payload, c.env,
                           Trusted(whKeys, c.env.identity), "failed",
                           Thrown("KeyFetchError"))
  /\ vcalls' = Without(vcalls, i)
  /\ UNCHANGED <<sigKeys, whKeys, clock, loads, event, verifier>>

\* webhook.addTrusted(endpoint), called by the application.
addTrusted ==
  /\ verifier = "Webhook"
  /\ verdict = NoVerdict
  /\ Len(loads) < MaxLoads
  /\ \E endpoint \in Endpoints : loads' = Append(loads, endpoint)
  /\ UNCHANGED <<sigKeys, whKeys, clock, vcalls, verdict, event, verifier>>

LoadResponse(j) ==
  /\ verdict = NoVerdict
  /\ \E res \in KeyResponses(loads[j]) : whKeys' = Store(whKeys, loads[j], res)
  /\ loads' = Without(loads, j)
  /\ UNCHANGED <<sigKeys, clock, vcalls, verdict, event, verifier>>

LoadFailure(j) ==
  /\ verdict = NoVerdict
  /\ loads' = Without(loads, j)
  /\ UNCHANGED <<sigKeys, whKeys, clock, vcalls, verdict, event, verifier>>

\* The application takes the result of the verification.
Observe ==
  /\ verdict # NoVerdict
  /\ verdict' = NoVerdict
  /\ UNCHANGED <<sigKeys, whKeys, clock, vcalls, loads, event, verifier>>

\* Time passes.
ClockTick ==
  /\ verdict = NoVerdict
  /\ clock < MaxClock
  /\ clock' = clock + 1
  /\ UNCHANGED <<sigKeys, whKeys, vcalls, loads, verdict, event, verifier>>

VerifyInit ==
  /\ sigKeys = NoKeys
  /\ whKeys = [owner \in Owners |-> NoKeys]
  /\ clock = 0
  /\ vcalls = <<>>
  /\ loads = <<>>
  /\ verdict = NoVerdict
  /\ event = NoEvent


\* ======================================================================
\* Several invoices and the global configuration: the revision of Invoice
\* that has fromExisting and fromServerEndpoint (invoice.js, lines 49-410)
\* ======================================================================
MaxInvoices == 2        \* Invoice objects made or asked for in one run

BrowserListen == TRUE   \* config.options.listen in a browser
Remaining == {1, 0}     \* what Math.round((expires - now) / 1000) may give
SocketEvents == {"subscribed", "requested", "broadcasted", "failed"}

VARIABLES
  registry,   \* every `on` object there is; registry[ConfigOn] is the one
              \* of config.options
  objects,    \* the Invoice objects; `on` tells which `on` object the
              \* object's _instance holds
  fetches,    \* fromServerEndpoint calls waiting for their answer
  heard       \* the events the latest step fired: whose, and who was called

svars == <<registry, objects, fetches, heard>>

ConfigOn == 1

\* A callback and the invoice whose application code (or whose create ())
\* registered it.
Callback(owner, name) == [owner |-> owner, name |-> name]

\* The invoices a server hands down: with or without _id and service block.
ExistingInvoices == {[uid |-> u, service |-> v] : u \in BOOLEAN, v \in BOOLEAN}

Shared == [registry |-> registry, objects |-> objects, heard |-> <<>>]

SetShared(w) ==
  /\ registry' = w.registry
  /\ objects' = w.objects
  /\ heard' = w.heard

\* constructor (opts): this._instance gets a deep clone of config.options,
\* callback lists included.
Construct ==
  /\ Len(objects) + fetches < MaxInvoices
  /\ \E listen \in BOOLEAN :
       /\ registry' = Append(registry, registry[ConfigOn])
       /\ objects' = Append(objects,
                            [on |-> Len(registry) + 1, listen |-> listen,
                             uid |-> FALSE, service |-> FALSE,
                             timer |-> "none", socket |-> "none",
                             stage |-> "new"])
  /\ heard' = <<>>
  /\ UNCHANGED fetches

\* static fromExisting (existingInvoice, options): the new object's
\* _instance is Object.assign({}, config.options, options), a shallow copy,
\* so its `on` is config.options.on itself.  (The clone that new Invoice()
\* made is dropped.)
FromExisting(existingInvoice, listen) ==
  [on |-> ConfigOn, listen |-> listen, uid |-> existingInvoice.uid,
   service |-> existingInvoice.service, timer |-> "none", socket |-> "none",
   stage |-> "new"]

fromExisting ==
  /\ Len(objects) + fetches < MaxInvoices
  /\ \E existingInvoice \in ExistingInvoices, listen \in BOOLEAN :
       objects' = Append(objects, FromExisting(existingInvoice, listen))
  /\ heard' = <<>>
  /\ UNCHANGED <<registry, fetches>>

\* static async fromServerEndpoint (endpoint, params, options): the POST.
fromServerEndpoint ==
  /\ Len(objects) + fetches < MaxInvoices
  /\ fetches' = fetches + 1
  /\ heard' = <<>>
  /\ UNCHANGED <<registry, objects>>

\* The endpoint answers: return this.fromExisting(res.data).
FromServerEndpointResponse ==
  /\ fetches > 0
  /\ fetches' = fetches - 1
  /\ \E data \in ExistingInvoices :
       objects' = Append(objects, FromExisting(data, BrowserListen))
  /\ heard' = <<>>
  /\ UNCHANGED registry

\* The endpoint fails: the promise rejects and no object is made.
FromServerEndpointFailure ==
  /\ fetches > 0
  /\ fetches' = fetches - 1
  /\ heard' = <<>>
  /\ UNCHANGED <<registry, objects>>

\* on (events, callback) of the invoice k: push on this._instance.on[event].
Push(w, k, events, cb) ==
  [w EXCEPT !.registry[w.objects[k].on] =
     [e \in Events |-> IF e \in events THEN Append(@[e], cb) ELSE @[e]]]

\* The application registers a callback on the invoice k, once per invoice.
OnOf(k) ==
  /\ \A r \in 1..Len(registry), e \in Events :
       \A i \in 1..Len(registry[r][e]) : registry[r][e][i] # Callback(k, "cb")
  /\ \E ev \in Events : SetShared(Push(Shared, k, {ev}, Callback(k, "cb")))
  /\ UNCHANGED fetches

\* forEach over a callback list from its i-th entry on.  The subscriber that
\* create () registers runs clearInterval(this._instance.expiryTimer) and
\* this._instance.socket.disconnect(true) on the invoice that registered
\* it; on an undefined socket that raises.
RECURSIVE RunOf(_, _, _)
RunOf(objs, list, i) ==
  IF i > Len(list) THEN [objects |-> objs, threw |-> FALSE, ran |-> i - 1]
  ELSE IF list[i].name # "teardown" THEN RunOf(objs, list, i + 1)
  ELSE LET o == list[i].owner
           cleared == [objs EXCEPT ![o].timer =
                         IF @ = "running" THEN "cleared" ELSE @]
       IN IF objs[o].socket = "none"
          THEN [objects |-> cleared, threw |-> TRUE, ran |-> i]
          ELSE RunOf([cleared EXCEPT ![o].socket = "closed"], list, i + 1)

\* this._instance.on[ev].forEach(...) of the invoice k.
DispatchOf(w, k, ev) ==
  LET list == w.registry[w.objects[k].on][ev]
      r == RunOf(w.objects, list, 1)
  IN [w |-> [w EXCEPT !.objects = r.objects,
                      !.heard = Append(@, [invoice |-> k, ev |-> ev,
                                           cbs |-> SubSeq(list, 1, r.ran)])],
      threw |-> r.threw]

\* create () of the invoice k from the listen test on: the interval, the
\* teardown subscriber, _listen (which raises without a service block),
\* created; an exception goes to the catch clause, which fires failed.
CreateRest(w, k) ==
  LET o == w.objects[k]
      w1 == Push([w EXCEPT !.objects[k].timer = "running"], k,
                 {"expired", "broadcasted"}, Callback(k, "teardown"))
      listening ==
        IF ~o.listen THEN [w |-> w, threw |-> FALSE]
        ELSE IF ~o.service THEN [w |-> w1, threw |-> TRUE]
        ELSE [w |-> [w1 EXCEPT !.objects[k].socket = "open"],
              threw |-> FALSE]
      created == IF listening.threw THEN listening
                 ELSE DispatchOf(listening.w, k, "created")
  IN IF created.threw
     THEN [DispatchOf(created.w, k, "failed").w
             EXCEPT !.objects[k].stage = "failed"]
     ELSE [created.w EXCEPT !.objects[k].stage = "created"]

\* create () of the invoice k, once per invoice: it posts without _id.
CreateOf(k) ==
  /\ objects[k].stage = "new"
  /\ IF objects[k].uid
     THEN SetShared(CreateRest(Shared, k))
     ELSE SetShared([Shared EXCEPT !.objects[k].stage = "post"])
  /\ UNCHANGED fetches

\* POST /invoice/create answers: Object.assign(this, invoiceRes.data).
CreateOfResponse(k) ==
  /\ objects[k].stage = "post"
  /\ \E u \in BOOLEAN :
       SetShared(CreateRest([Shared EXCEPT !.objects[k].uid = u,
                                           !.objects[k].service = TRUE], k))
  /\ UNCHANGED fetches

\* POST /invoice/create fails: the catch clause fires failed.
CreateOfFailure(k) ==
  /\ objects[k].stage = "post"
  /\ SetShared([DispatchOf(Shared, k, "failed").w
                  EXCEPT !.objects[k].stage = "failed"])
  /\ UNCHANGED fetches

\* The interval of the invoice k fires.
TickOf(k) ==
  /\ objects[k].timer = "running"
  /\ \E secondsRemaining \in Remaining :
       SetShared(DispatchOf(Shared, k, IF secondsRemaining # 0 THEN "timer"
                                       ELSE "expired").w)
  /\ UNCHANGED fetches

\* A push message arrives on the socket of the invoice k.
PushOf(k) ==
  /\ objects[k].socket = "open"
  /\ \E name \in SocketEvents : SetShared(DispatchOf(Shared, k, name).w)
  /\ UNCHANGED fetches

SharedInit ==
  /\ registry = <<[e \in Events |-> <<>>]>>
  /\ objects = <<>>
  /\ fetches = 0
  /\ heard = <<>>

\* ======================================================================
\* payload () and the setters of the private fields (invoice.js, 664-909)
\* ======================================================================
Private == {"_instance", "apiKey", "privateData", "webhook", "events"}
Who == {"subject", "twin"}
WebhookEvents == {"broadcasting", "broadcasted", "confirmed"}

VARIABLES
  pair,       \* two Invoice objects, as maps from property name to value
  shown       \* what the latest payload () call returned, and for what

pvars == <<pair, shown>>

\* _.omit(object, names): a new object without the named properties.
Omit(object, names) == [f \in DOMAIN object \ names |-> object[f]]

\* payload () of the earlier revision (lines 348-354), publicOnly or not.
PayloadOld(invoice) == Omit(invoice, {"options", "_instance"})

\* payload ()
Payload(invoice) == Omit(invoice, Private)

\* Object.assign(target, source)
Merge(target, source) ==
  [f \in DOMAIN target \cup DOMAIN source |->
     IF f \in DOMAIN source THEN source[f] ELSE target[f]]

\* this[name] = value
Put(invoice, name, value) == Merge(invoice, [f \in {name} |-> value])

\* if (typeof data === 'object') data = JSON.stringify(data)
Stringify(data) == IF data.t = "object" THEN String(data.raw) ELSE data

\* What the server answers to a creation: the id and the events so far,
\* with or without the private fields it was sent.
CreatedData ==
  {[f \in {"id", "events"} |-> 1],
   [f \in {"id", "events", "apiKey"} |-> 1]}

\* constructor: the defaults of config.invoice and the _instance.
Fresh(instanceRef) ==
  [f \in {"network", "webhook", "_instance"} |->
     CASE f = "network" -> 1
       [] f = "webhook" -> [e \in WebhookEvents |-> None]
       [] OTHER -> instanceRef]

NoPayload == [made |-> FALSE, who |-> "subject", before |-> Fresh(1),
              value |-> Omit(Fresh(1), Private)]

Change(who, invoice) ==
  /\ pair' = [pair EXCEPT ![who] = invoice]
  /\ shown' = NoPayload

setMemo(who) == \E memo \in {1} : Change(who, Put(pair[who], "memo", memo))

setAPIKey(who) == \E key \in {1, 2} : Change(who, Put(pair[who], "apiKey", key))

setPrivateData(who) ==
  \E data \in {Object(1), String(1), String(2)} :
    Change(who, Put(pair[who], "privateData", Stringify(data)))

setWebhook(who) ==
  \E endpoint \in {1}, events \in {WebhookEvents, {"confirmed"}} :
    Change(who, Put(pair[who], "webhook",
                    [e \in WebhookEvents |->
                       IF e \in events THEN endpoint
                       ELSE pair[who]["webhook"][e]]))

\* create () merging the server's answer: Object.assign(this, data).
AssignData(who) ==
  \E data \in CreatedData : Change(who, Merge(pair[who], data))

\* The application calls payload ().
PayloadCall(who) ==
  /\ shown' = [made |-> TRUE, who |-> who, before |-> pair[who],
               value |-> Payload(pair[who])]
  /\ UNCHANGED pair

PayloadInit ==
  /\ pair = [who \in Who |-> Fresh(IF who = "subject" THEN 1 ELSE 2)]
  /\ shown = NoPayload

\* ======================================================================
\* Specifications
\* ======================================================================
\* Every part of the model but the invoice of Spec is at rest.
InvoiceInit ==
  /\ \E behavior \in Behaviors : inv = NewInvoice(behavior)
  /\ \E listen \in BOOLEAN : instance = NewInstance(listen)
  /\ sockets = <<>>
  /\ timers = <<>>
  /\ now \in 0..(UnitsPerSecond - 1)
  /\ calls = <<>>
  /\ posts = 0
  /\ last = <<>>
  /\ fired = {}
  /\ emitted = <<>>

\* Spec: one invoice, created by one call, with the caller's callbacks and
\* the push messages.
Next ==
  \/ create(1) /\ UNCHANGED <<vvars, svars, pvars>>
  \/ createFrom(1) /\ UNCHANGED <<vvars, svars, pvars>>
  \/ createFromExisting(1) /\ UNCHANGED <<vvars, svars, pvars>>
  \/ OnCall /\ UNCHANGED <<vvars, svars, pvars>>
  \/ (\E s \in 1..Len(sockets) : PushMsg(s)) /\ UNCHANGED <<vvars, svars, pvars>>
  \/ (\E c \in 1..Len(calls) : CreateFromResponse(c)) /\ UNCHANGED <<vvars, svars, pvars>>
  \/ (\E c \in 1..Len(calls) : CreateFromFailure(c)) /\ UNCHANGED <<vvars, svars, pvars>>
  \/ (\E c \in 1..Len(calls) : PostResponse(c)) /\ UNCHANGED <<vvars, svars, pvars>>
  \/ (\E c \in 1..Len(calls) : PostFailure(c)) /\ UNCHANGED <<vvars, svars, pvars>>
  \/ DestroyCall /\ UNCHANGED <<vvars, svars, pvars>>
  \/ Advance /\ UNCHANGED <<vvars, svars, pvars>>
  \/ (\E i \in 1..Len(timers) : Tick(i)) /\ UNCHANGED <<vvars, svars, pvars>>
  \/ (\E s \in 1..Len(sockets) : SocketConnect(s)) /\ UNCHANGED <<vvars, svars, pvars>>
  \/ (\E s \in 1..Len(sockets) : SocketDrop(s)) /\ UNCHANGED <<vvars, svars, pvars>>

Init ==
  /\ InvoiceInit
  /\ VerifyInit
  /\ verifier = "Signatures"
  /\ SharedInit
  /\ PayloadInit

vars == <<ivars, vvars, svars, pvars>>

Spec == Init /\ [][Next]_vars

\* SpecRetry: one invoice and up to MaxCalls calls, made one after the other
\* or while an earlier one is still waiting.
NextRetry ==
  \/ create(MaxCalls) /\ UNCHANGED <<vvars, svars, pvars>>
  \/ createFrom(MaxCalls) /\ UNCHANGED <<vvars, svars, pvars>>
  \/ createFromExisting(MaxCalls) /\ UNCHANGED <<vvars, svars, pvars>>
  \/ (\E c \in 1..Len(calls) : CreateFromResponse(c)) /\ UNCHANGED <<vvars, svars, pvars>>
  \/ (\E c \in 1..Len(calls) : CreateFromFailure(c)) /\ UNCHANGED <<vvars, svars, pvars>>
  \/ (\E c \in 1..Len(calls) : PostResponse(c)) /\ UNCHANGED <<vvars, svars, pvars>>
  \/ (\E c \in 1..Len(calls) : PostFailure(c)) /\ UNCHANGED <<vvars, svars, pvars>>
  \/ DestroyCall /\ UNCHANGED <<vvars, svars, pvars>>
  \/ Advance /\ UNCHANGED <<vvars, svars, pvars>>
  \/ (\E i \in 1..Len(timers) : Tick(i)) /\ UNCHANGED <<vvars, svars, pvars>>
  \/ (\E s \in 1..Len(sockets) : SocketConnect(s)) /\ UNCHANGED <<vvars, svars, pvars>>
  \/ (\E s \in 1..Len(sockets) : SocketDrop(s)) /\ UNCHANGED <<vvars, svars, pvars>>

SpecRetry == Init /\ [][NextRetry]_vars

\* SpecDestroy: one invoice created by one create () call, which destroy ()
\* may interrupt while it waits for the response.
NextDestroy ==
  \/ create(1) /\ UNCHANGED <<vvars, svars, pvars>>
  \/ OnCall /\ UNCHANGED <<vvars, svars, pvars>>
  \/ DestroyWaiting /\ UNCHANGED <<vvars, svars, pvars>>
  \/ (\E c \in 1..Len(calls) : PostResponse(c))
       /\ UNCHANGED <<vvars, svars, pvars>>
  \/ (\E c \in 1..Len(calls) : PostFailure(c))
       /\ UNCHANGED <<vvars, svars, pvars>>
  \/ Advance /\ UNCHANGED <<vvars, svars, pvars>>
  \/ (\E i \in 1..Len(timers) : Tick(i)) /\ UNCHANGED <<vvars, svars, pvars>>
  \/ (\E s \in 1..Len(sockets) : SocketConnect(s))
       /\ UNCHANGED <<vvars, svars, pvars>>
  \/ (\E s \in 1..Len(sockets) : PushMsg(s))
       /\ UNCHANGED <<vvars, svars, pvars>>

SpecDestroy == Init /\ [][NextDestroy]_vars

\* SpecVerify: the two verifiers, their key stores and the clock, beside an
\* invoice that is never created.
InitVerify ==
  /\ inv = NewInvoice("normal")
  /\ instance = NewInstance(FALSE)
  /\ sockets = <<>>
  /\ timers = <<>>
  /\ now = 0
  /\ calls = <<>>
  /\ posts = 0
  /\ last = <<>>
  /\ fired = {}
  /\ emitted = <<>>
  /\ VerifyInit
  /\ verifier \in {"Signatures", "Webhook"}
  /\ SharedInit
  /\ PayloadInit

NextVerify ==
  \/ verifyWebhook /\ UNCHANGED <<ivars, svars, pvars>>
  \/ ReceiveEvent /\ UNCHANGED <<ivars, svars, pvars>>
  \/ DropEvent /\ UNCHANGED <<ivars, svars, pvars>>
  \/ verifyEvent /\ UNCHANGED <<ivars, svars, pvars>>
  \/ (\E i \in 1..Len(vcalls) : RefreshKeysResponse(i)) /\ UNCHANGED <<ivars, svars, pvars>>
  \/ (\E i \in 1..Len(vcalls) : RefreshKeysFailure(i)) /\ UNCHANGED <<ivars, svars, pvars>>
  \/ verifySignature /\ UNCHANGED <<ivars, svars, pvars>>
  \/ (\E i \in 1..Len(vcalls) : AddTrustedResponse(i)) /\ UNCHANGED <<ivars, svars, pvars>>
  \/ (\E i \in 1..Len(vcalls) : AddTrustedFailure(i)) /\ UNCHANGED <<ivars, svars, pvars>>
  \/ addTrusted /\ UNCHANGED <<ivars, svars, pvars>>
  \/ (\E j \in 1..Len(loads) : LoadResponse(j)) /\ UNCHANGED <<ivars, svars, pvars>>
  \/ (\E j \in 1..Len(loads) : LoadFailure(j)) /\ UNCHANGED <<ivars, svars, pvars>>
  \/ Observe /\ UNCHANGED <<ivars, svars, pvars>>
  \/ ClockTick /\ UNCHANGED <<ivars, svars, pvars>>

SpecVerify == InitVerify /\ [][NextVerify]_vars

\* The invoice of Spec before any call, and no verification.
Idle ==
  /\ inv = NewInvoice("normal")
  /\ instance = NewInstance(FALSE)
  /\ sockets = <<>>
  /\ timers = <<>>
  /\ now = 0
  /\ calls = <<>>
  /\ posts = 0
  /\ last = <<>>
  /\ fired = {}
  /\ emitted = <<>>
  /\ VerifyInit
  /\ verifier = "Signatures"

\* SpecShared: up to MaxInvoices invoices, made by the constructor, by
\* fromExisting or by fromServerEndpoint, with their callbacks and events.
InitShared == Idle /\ SharedInit /\ PayloadInit

NextShared ==
  \/ Construct /\ UNCHANGED <<ivars, vvars, pvars>>
  \/ fromExisting /\ UNCHANGED <<ivars, vvars, pvars>>
  \/ fromServerEndpoint /\ UNCHANGED <<ivars, vvars, pvars>>
  \/ FromServerEndpointResponse /\ UNCHANGED <<ivars, vvars, pvars>>
  \/ FromServerEndpointFailure /\ UNCHANGED <<ivars, vvars, pvars>>
  \/ (\E k \in 1..Len(objects) : OnOf(k)) /\ UNCHANGED <<ivars, vvars, pvars>>
  \/ (\E k \in 1..Len(objects) : CreateOf(k))
       /\ UNCHANGED <<ivars, vvars, pvars>>
  \/ (\E k \in 1..Len(objects) : CreateOfResponse(k))
       /\ UNCHANGED <<ivars, vvars, pvars>>
  \/ (\E k \in 1..Len(objects) : CreateOfFailure(k))
       /\ UNCHANGED <<ivars, vvars, pvars>>
  \/ (\E k \in 1..Len(objects) : TickOf(k))
       /\ UNCHANGED <<ivars, vvars, pvars>>
  \/ (\E k \in 1..Len(objects) : PushOf(k))
       /\ UNCHANGED <<ivars, vvars, pvars>>

SpecShared == InitShared /\ [][NextShared]_vars

\* SpecPayload: two invoices, their setters and payload ().
InitPayload == Idle /\ SharedInit /\ PayloadInit

NextPayload ==
  \/ (\E who \in Who : setMemo(who)) /\ UNCHANGED <<ivars, vvars, svars>>
  \/ (\E who \in Who : setAPIKey(who)) /\ UNCHANGED <<ivars, vvars, svars>>
  \/ (\E who \in Who : setPrivateData(who))
       /\ UNCHANGED <<ivars, vvars, svars>>
  \/ (\E who \in Who : setWebhook(who)) /\ UNCHANGED <<ivars, vvars, svars>>
  \/ (\E who \in Who : AssignData(who)) /\ UNCHANGED <<ivars, vvars, svars>>
  \/ (\E who \in Who : PayloadCall(who)) /\ UNCHANGED <<ivars, vvars, svars>>

SpecPayload == InitPayload /\ [][NextPayload]_vars

\* ======================================================================
\* Claims
\* ======================================================================

\* No caller callback that throws is registered.
NoThrower == \A p \in Registered : ~Throws(p[2])

\* The invoice is Live: a creation call has resolved with listening on.
Live ==
  /\ instance.listen
  /\ instance.socket # None
  /\ \E c \in 1..Len(calls) : calls[c].stage = "resolved"

\* The countdown is cancelled and the push channel is disconnected.
TornDown ==
  /\ instance.socket # None => sockets[instance.socket].closed
  /\ instance.expiryTimer # None => ~timers[instance.expiryTimer].active

\* C1 (as stated): when create() is called twice on an invoice, the second
\* call made after the first has resolved, exactly one POST to
\* /invoice/create has been made.
C1_SecondCreateDoesNotPost ==
  (/\ Len(calls) = 2
   /\ calls[1].entry = "create" /\ calls[1].stage = "resolved"
   /\ calls[2].entry = "create" /\ calls[2].alone)
    => posts = 1

\* C6 (as stated): a step that dispatches broadcasted or expired on a Live
\* invoice leaves the countdown cancelled and the push channel disconnected.
C6_TerminalEventTearsDown ==
  \A i \in 1..Len(last) :
    (last[i].ev \in {"broadcasted", "expired"} /\ Live) => TornDown

\* C7 (as stated): on a normal Live invoice the countdown delivers timer
\* events only while time remains; from the expiry on it delivers expired,
\* never a timer event with zero or negative secondsRemaining.
C7_TimerOnlyBeforeExpiry ==
  \A i \in 1..Len(last) :
    (/\ last[i].ev = "timer"
     /\ inv.behavior = "normal"
     /\ Live
     /\ NoThrower)
      => last[i].arg.n > 0

\* C8 (as stated): a static invoice made Live by create() with listening
\* enabled has no countdown: no interval is started and neither timer nor
\* expired is ever fired for it.
C8_StaticStartsNoCountdown ==
  (inv.behavior = "static" /\ Live /\ NoThrower)
    => (timers = <<>> /\ "timer" \notin fired /\ "expired" \notin fired)

\* C9 (as stated): when the POST of create() fails, the call rejects with
\* that same error and the invoice has no id, no countdown and no push
\* channel, and nothing but failed has been fired.
C9_PostFailureRejectsWithTheError ==
  \A c \in 1..Len(calls) :
    (calls[c].entry = "create" /\ calls[c].cause = "post")
      => (/\ calls[c].stage = "rejected"
          /\ calls[c].err = "http"
          /\ inv.id = None
          /\ timers = <<>>
          /\ sockets = <<>>
          /\ fired \subseteq {"failed"})

\* C10 (as stated): a creation-time HTTP failure is reported once: in the
\* step that handles it, a registered failed callback is invoked with the
\* error at most once, whichever entry point started the creation.
C10_FailureReportedOnce ==
  (NoThrower /\ \E c \in 1..Len(calls) : calls[c].cause # "none") =>
    Cardinality({i \in 1..Len(last) :
                   /\ last[i].ev = "failed"
                   /\ last[i].arg.kind = "error"
                   /\ last[i].cbs # <<>>}) <= 1

\* ----------------------------------------------------- verification claims
\* A verification has ended and was given an envelope.
Ended == verdict # NoVerdict /\ verdict.env # NoEnvelope

\* sha256 of the payload's bytes equals the decoded digest of the envelope.
DigestMatches ==
  /\ verdict.env.digest.t # "undefined"
  /\ verdict.env.digest.raw = Sha256(verdict.payload.raw)

\* Some public key of the key set the verification had in hand verifies
\* the decoded signature over sha256 of the payload.
SomeKeyVerifies ==
  /\ verdict.keys.set
  /\ verdict.env.signature.t # "undefined"
  /\ \E i \in 1..Len(verdict.keys.publicKeys) :
       verdict.env.signature.raw =
         Sign(verdict.keys.publicKeys[i], Sha256(verdict.payload.raw))

\* C2 (amended): a verification completes successfully if and only if the
\* signature type is ECC, no key refresh it needed has failed, sha256 of the
\* payload equals the decoded digest, and at least one public key of the
\* key set then stored verifies the signature; otherwise it throws.
C2_SucceedsIffChecksPass ==
  Ended =>
    (verdict.outcome = "ok" <=>
       (/\ verdict.env.signatureType = "ECC"
        /\ verdict.refresh # "failed"
        /\ DigestMatches
        /\ SomeKeyVerifies))

\* C2 (as stated): success if and only if the type is ECC, the digest
\* matches and some key of the trusted key set verifies the signature.
C2_AsStated ==
  Ended =>
    (verdict.outcome = "ok" <=>
       (/\ verdict.env.signatureType = "ECC"
        /\ DigestMatches
        /\ SomeKeyVerifies))

\* C2 witness: after a refresh, a signature made with the second key of a
\* two-key set verifies.
C2_Witness ==
  /\ Ended
  /\ verdict.outcome = "ok"
  /\ verdict.refresh = "ok"
  /\ verdict.keys.publicKeys = <<1, 2>>
  /\ verdict.env.signature.raw = Sign(2, Sha256(verdict.payload.raw))

\* The envelope a signer holding `key` makes for `payload`.
Signed(payload, key, identity) ==
  [digest |-> Base64(Sha256(payload.raw)), identity |-> identity,
   signature |-> Base64(Sign(key, Sha256(payload.raw))),
   signatureType |-> "ECC"]

\* The verification was one of payload with the envelope `env`, against a
\* key set that needed no refresh or got one.
RoundTripOf(env) ==
  /\ Ended
  /\ verdict.refresh # "failed"
  /\ verdict.keys.set
  /\ verdict.env = env

\* C3 (amended): round trip: provided no key refresh fails, verifying P with
\* the envelope made for P by a key of the trusted set succeeds; and a
\* successful verification is always one whose digest decodes to sha256(P)
\* and whose signature decodes to the signature of that digest by a key of
\* the set, so replacing P, the digest or the signature by a value that
\* denotes different bytes makes verification fail.
C3_RoundTrip ==
  /\ \A i \in 1..Len(verdict.keys.publicKeys) :
       RoundTripOf(Signed(verdict.payload, verdict.keys.publicKeys[i],
                          verdict.env.identity))
         => verdict.outcome = "ok"
  /\ (Ended /\ verdict.outcome = "ok") =>
       \E i \in 1..Len(verdict.keys.publicKeys) :
         LET honest == Signed(verdict.payload, verdict.keys.publicKeys[i],
                              verdict.env.identity)
         IN /\ verdict.env.digest.raw = honest.digest.raw
            /\ verdict.env.signature.raw = honest.signature.raw

\* C3 (as stated): the envelope made for P by a key of the trusted set
\* verifies, and a successful verification is one of exactly that envelope:
\* any different digest or signature value fails.
C3_AsStated ==
  /\ \A i \in 1..Len(verdict.keys.publicKeys) :
       (Ended /\ verdict.keys.set
        /\ verdict.env = Signed(verdict.payload, verdict.keys.publicKeys[i],
                                verdict.env.identity))
         => verdict.outcome = "ok"
  /\ (Ended /\ verdict.outcome = "ok") =>
       \E i \in 1..Len(verdict.keys.publicKeys) :
         verdict.env = Signed(verdict.payload, verdict.keys.publicKeys[i],
                              verdict.env.identity)

\* C3 witness: the envelope made for an object payload by the first key
\* verifies against a cached key set.
C3_Witness ==
  /\ RoundTripOf(Signed(Object(1), 1, "A"))
  /\ verdict.payload = Object(1)
  /\ verdict.refresh = "none"
  /\ verdict.outcome = "ok"

\* C4 (as stated): a verification succeeds only for an envelope whose
\* identity has a registered trusted endpoint.
C4_OnlyRegisteredIdentityVerifies ==
  (Ended /\ verdict.outcome = "ok") => verdict.env.identity \in Identities

\* C5: a verification whose signatureType is not "ECC" fails on that test
\* and has made no key fetch; and no verification waiting for a key fetch
\* has a signatureType other than "ECC".
C5_NonEccFailsBeforeFetch ==
  /\ (Ended /\ verdict.env.signatureType # "ECC")
       => (verdict.outcome = "UnsupportedType" /\ verdict.refresh = "none")
  /\ \A i \in 1..Len(vcalls) : vcalls[i].env.signatureType = "ECC"

\* C5 witness: a non-ECC envelope is refused while the cached key set is
\* expired.
C5_Witness ==
  /\ Ended
  /\ verdict.env.signatureType = "RSA"
  /\ verdict.outcome = "UnsupportedType"
  /\ verdict.keys.set
  /\ Expired(verdict.keys, clock)

\* --------------------------------------------------- more invoice claims
\* C11 (as stated): the id is write-once: a step taken while the invoice has
\* an id, whichever operation or push message it belongs to, leaves the id as
\* it was.
C11_IdWriteOnce == [][inv.id # None => inv'.id = inv.id]_vars

\* The push messages _listen () has a handler for.
Handled == {"subscribed", "requested", "broadcasted", "failed"}

\* C13 (as stated): the arrival of a push message runs every callback
\* registered for its event once, in registration order, each with the raw
\* message as its argument, and fires nothing else.
C13_PushRunsEveryCallbackOnce ==
  [][\A s \in 1..Len(sockets), name \in Handled, snap \in Snapshots :
       Receive(s, name, snap) =>
         /\ Len(last') = 1
         /\ last'[1].ev = name
         /\ last'[1].arg = MsgArg(Message(name, snap))
         /\ last'[1].cbs = instance.on[name]]_vars

\* C14 (as stated): every firing of an event reaches every callback then
\* registered for it, the teardown subscriber included, whether or not an
\* earlier callback threw.
C14_ThrowDoesNotStopDelivery ==
  \A i \in 1..Len(last) : last[i].cbs = last[i].regs

\* The call adopted an invoice that carries an id.
Adopted(c) ==
  /\ c.entry \in {"createFrom", "createFromExisting"}
  /\ c.stage # "fetch"
  /\ c.cause # "fetch"

\* C15 (as stated): the create() that follows an adoption is a resume: no
\* POST is made, the adopted id is kept, and once it has resolved with
\* listening on, the push channel is open, the countdown of a normal invoice
\* is started and created has been fired.
C15_AdoptedCreateIsResume ==
  \A c \in 1..Len(calls) :
    Adopted(calls[c]) =>
      /\ posts = 0
      /\ inv.id = AdoptedId
      /\ (calls[c].stage = "resolved" /\ instance.listen) =>
           /\ instance.socket # None
           /\ inv.behavior = "normal" => instance.expiryTimer # None
           /\ "created" \in fired

\* No interval is running and no socket is open.
Quiet ==
  /\ \A i \in 1..Len(timers) : ~timers[i].active
  /\ \A s \in 1..Len(sockets) : sockets[s].closed

\* broadcasted or expired has been fired.
Terminal == fired \cap {"broadcasted", "expired"} # {}

\* C16 (as stated): destroy() on a Live invoice that has not reached a
\* terminal status leaves no interval running and no socket open, so that
\* no timer, expired or push-driven callback can be delivered afterwards.
C16_DestroyStopsDelivery ==
  [][(DestroyCall /\ Live /\ ~Terminal) => Quiet']_vars

\* ---------------------------------------------- more verification claims
\* C17 (as stated): when the key fetch that a verification started over a
\* stored entry fails, by a network error or by a malformed answer, the
\* entry stored for the identity is left as it was and the verification
\* does not succeed.
C17_FailedRefreshKeepsEntry ==
  [][\A i \in 1..Len(vcalls) :
       /\ (/\ vcalls[i].trusted.set
           /\ RefreshKeysFailure(i) \/ RefreshKeysAnswer(i, Malformed)) =>
            (sigKeys' = sigKeys /\ verdict'.outcome # "ok")
       /\ (/\ vcalls[i].trusted.set
           /\ AddTrustedFailure(i) \/ AddTrustedAnswer(i, Malformed)) =>
            /\ Trusted(whKeys', vcalls[i].env.identity)
                 = Trusted(whKeys, vcalls[i].env.identity)
            /\ verdict'.outcome # "ok"]_vars

\* The verification got as far as the test of the cached key set: its
\* signature type was ECC.
ReachedKeys == Ended /\ verdict.env.signatureType = "ECC"

\* C18 (amended): the expiry is checked on every attempt.  A verification
\* waits for a key fetch only if the key set it found was missing or past
\* its expirationDate, and every verdict that follows a fetch is computed
\* after it; a verification that made no fetch found a key set that was
\* not expired or, with the verifier that keeps a key set per identity,
\* found none for the identity and failed.
C18_ExpiryCheckedOnEveryAttempt ==
  /\ \A i \in 1..Len(vcalls) :
       IF vcalls[i].api = "Signatures"
       THEN ~vcalls[i].trusted.set \/ Expired(vcalls[i].trusted, clock)
       ELSE vcalls[i].trusted.set /\ Expired(vcalls[i].trusted, clock)
  /\ (ReachedKeys /\ verdict.refresh = "none") =>
       IF verdict.api = "Signatures"
       THEN verdict.keys.set /\ ~Expired(verdict.keys, verdict.at)
       ELSE \/ verdict.keys.set /\ ~Expired(verdict.keys, verdict.at)
            \/ ~verdict.keys.set /\ verdict.outcome = "TypeError"

\* C18 (as stated): a verification that made no fetch found a key set cached
\* and not expired.
C18_AsStated ==
  (ReachedKeys /\ verdict.refresh = "none") =>
    (verdict.keys.set /\ ~Expired(verdict.keys, verdict.at))

\* C18 witness: a verification found its key set expired, fetched a new one
\* and succeeded against it.
C18_Witness ==
  /\ ReachedKeys
  /\ verdict.refresh = "ok"
  /\ verdict.at > 0
  /\ verdict.keys.expirationDate = 0
  /\ verdict.outcome = "ok"

\* What verifyEvent makes of payload and envelope against a cached key set.
EventOutcome(payload, env, keys) ==
  IF env.signatureType # "ECC" THEN "UnsupportedType"
  ELSE CheckDigestAndSignature(payload, env, keys).outcome

\* C19 (as stated): with a key set cached and not expired, verifyWebhook
\* given the headers digest, x-identity, x-signature and x-signature-type
\* ends as verifyEvent ends for the same payload and envelope; so a
\* correctly signed webhook verifies.
C19_WebhookAsEvent ==
  [][\A payload \in PayloadInputs, env \in Envelopes :
       (/\ sigKeys.set
        /\ sigKeys.array
        /\ ~Expired(sigKeys, clock)
        /\ VerifyWebhookWith(payload, HttpHeaders(env)))
         => verdict'.outcome = EventOutcome(payload, env, sigKeys)]_vars

\* ------------------------------------------------- claims on the registry
\* C12 (as stated): the callback registry is per instance: an event of an
\* invoice calls only callbacks that were registered on that invoice, and
\* the callback lists of the global configuration stay empty.
C12_RegistryPerInstance ==
  /\ \A i \in 1..Len(heard) : \A j \in 1..Len(heard[i].cbs) :
       heard[i].cbs[j].owner = heard[i].invoice
  /\ \A e \in Events : registry[ConfigOn][e] = <<>>

\* -------------------------------------------------- claims on payload ()
\* The two invoices differ at most in their private fields.
SamePublic(a, b) ==
  /\ DOMAIN a \ Private = DOMAIN b \ Private
  /\ \A f \in DOMAIN a \ Private : a[f] = b[f]

\* C20: the result of payload () has none of the private fields and is the
\* invoice without them; the call leaves the invoice as it was; and two
\* invoices that differ only in private fields have equal payloads.
C20_PayloadHidesPrivateFields ==
  /\ shown.made =>
       /\ DOMAIN shown.value \cap Private = {}
       /\ SamePublic(shown.value, shown.before)
       /\ pair[shown.who] = shown.before
  /\ SamePublic(pair["subject"], pair["twin"]) =>
       Payload(pair["subject"]) = Payload(pair["twin"])

\* C20 witness: payload () was called on an invoice that has all five
\* private fields while the other invoice, a different object with other
\* private values, has the same public fields.
C20_Witness ==
  /\ shown.made
  /\ shown.who = "subject"
  /\ Private \subseteq DOMAIN shown.before
  /\ SamePublic(pair["subject"], pair["twin"])
  /\ Private \subseteq DOMAIN pair["twin"]
  /\ pair["twin"]["apiKey"] # pair["subject"]["apiKey"]
  /\ pair["twin"]["privateData"] # pair["subject"]["privateData"]

\* ------------------------------------------------------- listening disabled
\* C21: with the instance option listen false, no interval is ever started
\* and no socket opened, nothing but created and failed is ever fired, and a
\* creation call that has resolved has fired created; the step that resolves
\* it runs every created callback.
C21_NoListenNoCountdownNoPush ==
  ~instance.listen =>
    /\ timers = <<>>
    /\ sockets = <<>>
    /\ instance.socket = None
    /\ instance.expiryTimer = None
    /\ fired \subseteq {"created", "failed"}
    /\ \A c \in 1..Len(calls) :
         calls[c].stage = "resolved" =>
           /\ "created" \in fired
           /\ inv.id # None
           /\ \A i \in 1..Len(last) :
                last[i].ev = "created" => last[i].cbs = last[i].regs

\* A call has resolved without listening and has run a created callback.
C21_Witness ==
  /\ ~instance.listen
  /\ \E c \in 1..Len(calls) : calls[c].stage = "resolved"
  /\ \E i \in 1..Len(last) : last[i].ev = "created" /\ last[i].cbs # <<>>

\* C22 (as stated): a push message named broadcasting that arrives while a
\* callback is registered for broadcasting invokes that callback.
C22_BroadcastingFires ==
  [][\A s \in 1..Len(sockets), snap \in Snapshots :
       (Receive(s, "broadcasting", snap) /\ instance.on["broadcasting"] # <<>>)
         => \E i \in 1..Len(last') :
              /\ last'[i].ev = "broadcasting"
              /\ last'[i].cbs # <<>>]_vars

\* C23 (as stated): on a Live invoice whose callbacks do not throw, a run
\* of the countdown function never invokes timer with secondsRemaining of 0
\* or less, and when the remaining time is 0 or negative it fires expired
\* and leaves the countdown stopped.
C23_TickChoosesOnSign ==
  \A i \in 1..Len(last) :
    (last[i].ev \in {"timer", "expired"} /\ Live /\ NoThrower) =>
      /\ last[i].ev = "timer" => last[i].arg.n > 0
      /\ SecondsRemaining(World, now) <= 0 =>
           /\ last[i].ev = "expired"
           /\ instance.expiryTimer # None
           /\ ~timers[instance.expiryTimer].active

\* ---------------------------------------------------------- digest mismatch
\* The verification got as far as the digest comparison with a digest it
\* could decode: the type was ECC, no key fetch failed, and (Webhook) the
\* identity had an entry.
ReachedDigest ==
  /\ Ended
  /\ verdict.env.signatureType = "ECC"
  /\ verdict.refresh # "failed"
  /\ verdict.env.digest.t # "undefined"
  /\ verdict.api = "Webhook" => verdict.keys.set

\* C24: a verification whose decoded digest is not sha256 of the payload
\* never succeeds and makes no ECC signature check; when it got as far as
\* the comparison, it ends with the digest error.
C24_DigestMismatchFailsFast ==
  (Ended /\ ~DigestMatches) =>
    /\ verdict.outcome # "ok"
    /\ verdict.ecc = 0
    /\ ReachedDigest => verdict.outcome = "DigestMismatch"

\* A digest mismatch on an envelope whose signature a key of the set in hand
\* did make over the envelope's own digest.
C24_Witness ==
  /\ Ended
  /\ ~DigestMatches
  /\ verdict.outcome = "DigestMismatch"
  /\ verdict.keys.set
  /\ \E i \in 1..Len(verdict.keys.publicKeys) :
       verdict.env.signature.raw =
         Sign(verdict.keys.publicKeys[i], verdict.env.digest.raw)

\* ------------------------------------------------------------ push messages
\* C25 (as stated): when a push message named subscribed, requested,
\* broadcasted or failed arrives while a callback is registered for it, the
\* callbacks see the invoice with the fields of the message merged in, all
\* but id.
C25_MergeBeforeCallbacks ==
  [][\A s \in 1..Len(sockets), name \in Handled, snap \in Snapshots :
       (Receive(s, name, snap) /\ instance.on[name] # <<>>) =>
         \A i \in 1..Len(last') :
           last'[i].ev = name =>
             last'[i].view = Assign(World, OmitId(snap)).inv]_vars

\* C26: the arrival of a failed push message fires failed, with the message,
\* and nothing else, and leaves the invoice fields, the intervals, the
\* sockets and the instance as they were.
C26_FailedPushOnlyObserved ==
  [][\A s \in 1..Len(sockets), snap \in Snapshots :
       Receive(s, "failed", snap) =>
         /\ Len(last') = 1
         /\ last'[1].ev = "failed"
         /\ last'[1].arg = MsgArg(Message("failed", snap))
         /\ inv' = inv
         /\ timers' = timers
         /\ sockets' = sockets
         /\ instance' = instance]_vars

\* A failed push message has reached a callback of a Live invoice whose
\* countdown is running and whose socket is connected.
C26_Witness ==
  /\ Live
  /\ \E i \in 1..Len(last) :
       /\ last[i].ev = "failed"
       /\ last[i].arg.kind = "message"
       /\ last[i].cbs # <<>>
  /\ timers[instance.expiryTimer].active
  /\ sockets[instance.socket].connected
  /\ ~sockets[instance.socket].closed

\* C30 (as stated): once a normal invoice is Live its expires is never
\* changed, by a push message or anything else.
C30_ExpiryFixed ==
  [][(Live /\ inv.behavior = "normal") => inv'.expires = inv.expires]_vars

C29_OtherIdentitiesUntouched ==
  [][\A i \in 1..Len(vcalls) :
       \A res \in KeyResponses(vcalls[i].trusted.endpoint) :
         AddTrustedAnswer(i, res) =>
           \A o \in Identities \ {vcalls[i].env.identity} :
             whKeys[o].set => whKeys'[o] = whKeys[o]]_vars

\* ------------------------------------------------------ several create calls
\* The intervals that have not been cleared, the sockets not disconnected.
ActiveTimers == {i \in 1..Len(timers) : timers[i].active}
OpenSockets == {s \in 1..Len(sockets) : ~sockets[s].closed}

\* C31 (as stated): when create() is called again while an earlier create()
\* is still waiting for its response, at most one POST is made in all, and
\* the invoice has at most one countdown and one push channel.
C31_OverlappingCreatePostsOnce ==
  (/\ Len(calls) = 2
   /\ calls[1].entry = "create"
   /\ calls[2].entry = "create"
   /\ ~calls[2].alone)
    => /\ posts <= 1
       /\ Cardinality(ActiveTimers) <= 1
       /\ Cardinality(OpenSockets) <= 1

\* C32 (as stated): after create() calls that have all resolved, at most one
\* interval is running and at most one socket is open.
C32_OneCountdownOneChannel ==
  (\A c \in 1..Len(calls) :
     calls[c].entry = "create" /\ calls[c].stage = "resolved")
    => /\ Cardinality(ActiveTimers) <= 1
       /\ Cardinality(OpenSockets) <= 1

\* C33 (as stated): a creation call that has rejected leaves no interval
\* running and no socket open.
C33_RejectedCreateLeavesNothing ==
  \A c \in 1..Len(calls) : calls[c].stage = "rejected" => Quiet

\* ------------------------------------------------------ destroy while waiting
\* C34 (as stated): once destroy() has been called while create() was
\* waiting for its response, no interval is running and no socket is open
\* afterwards, and no step delivers timer, expired or a push-driven event.
C34_DestroyedStaysQuiet ==
  \A c \in 1..Len(calls) :
    calls[c].destroyed =>
      /\ Quiet
      /\ \A i \in 1..Len(last) :
           last[i].ev \notin {"timer", "expired", "subscribed", "requested",
                              "broadcasted"}

\* --------------------------------------------------------- expired key sets
\* C35 (as stated): when the entry of the identity is expired and the
\* refresh is answered with a well-formed key set that is not expired, a
\* verification that succeeds was checked against a key set that is not
\* expired at the time of the check.
C35_NoSuccessOnExpiredKeys ==
  [][\A i \in 1..Len(vcalls) :
       \A res \in KeyResponses(vcalls[i].trusted.endpoint) :
         (/\ AddTrustedAnswer(i, res)
          /\ res.array
          /\ res.expirationDate >= clock
          /\ verdict'.outcome = "ok")
           => ~Expired(verdict'.keys, clock)]_vars

\* ------------------------------------------------------- verifyEvent again
\* The event object the application holds carries the envelope a key of the
\* cached, unexpired key set made for its payload.
WellSigned ==
  /\ event.held
  /\ sigKeys.set
  /\ sigKeys.array
  /\ ~Expired(sigKeys, clock)
  /\ \E i \in 1..Len(sigKeys.publicKeys), id \in IdentityInputs :
       event.signature = Signed(event.payload, sigKeys.publicKeys[i], id)

\* C36 (as stated): verifyEvent on a correctly signed event object succeeds,
\* the first time and again, and a verifyEvent call that fails leaves the
\* event object as it received it.
C36_VerifyEventRepeatable ==
  [][verifyEvent =>
       /\ WellSigned => verdict'.outcome = "ok"
       /\ verdict'.outcome \notin {"ok", "none"} => event' = event]_vars

\* ----------------------------------------------------------- static invoices
\* C37 (as stated): a broadcasted push message that arrives for a Live static
\* invoice leaves its socket open, so that a later broadcasted message can
\* still be delivered.
C37_StaticSurvivesBroadcasted ==
  [][\A s \in 1..Len(sockets), snap \in Snapshots :
       (/\ Receive(s, "broadcasted", snap)
        /\ inv.behavior = "static"
        /\ Live
        /\ NoThrower)
         => ~sockets'[s].closed]_vars

====
